---- MODULE Spec2Model ----
(***************************************************************************)
(* Habit tracker: the period bucketing and streak / break / completion     *)
(* rate analysis of src/analyze.py over the Completions table written by   *)
(* HabitDB.check_off_habit (src/habit.py, src/db.py).                       *)
(*                                                                         *)
(* Dates.  A datetime.date is modelled by its proleptic Gregorian ordinal  *)
(* (date.toordinal()), so that date - date and date +/- timedelta(days=n)  *)
(* are integer arithmetic.  A date string "YYYY-MM-DD", as stored in the   *)
(* CompletionDate column, is modelled by the triple <<year, month, day>>;  *)
(* date.fromisoformat and str(date) convert between the two.               *)
(*                                                                         *)
(* Exceptions.  An operation that can raise returns an outcome record      *)
(* [exc |-> "none", val |-> v] or [exc |-> <exception name>, val |-> <<>>].*)
(***************************************************************************)
EXTENDS Integers, Sequences, FiniteSets, TLC

VARIABLES
    today,        \* the system date: what date.today() returns
    defined_habits,  \* the user's habits (rows of the Habit table) in primary-key order
    completions,  \* per habit name, the CompletionDate of its rows in the Completions table
    last_completion,  \* per habit name, the attribute of its HabitDB object: None or a date
    result        \* the analysis call made last and what it returned

vars == <<today, defined_habits, completions, last_completion, result>>

----------------------------------------------------------------------------
(* Bounds of the model *)

\* rows the Completions table may hold when the user has a single habit
MaxCompletions == 3

\* rows the Completions table may hold when the user has several habits
MaxCompletionsAll == 3

\* number of times the system date advances
MaxDays == 1

\* the system dates of the calendar checks lie at most this many days before
\* or after 2023-12-31
MaxSpan == 400

----------------------------------------------------------------------------
(* Evaluation helper *)

\* F(e), with e evaluated once whatever the number of its uses in F
Bind(e, F(_)) == CHOOSE r \in {F(x) : x \in {e}} : TRUE

----------------------------------------------------------------------------
(* datetime.date *)

Years == 2019 .. 2027

IsLeap(y) == (y % 4 = 0 /\ y % 100 # 0) \/ y % 400 = 0

DaysInMonth(y, m) ==
    IF m = 2 THEN (IF IsLeap(y) THEN 29 ELSE 28)
    ELSE IF m \in {4, 6, 9, 11} THEN 30 ELSE 31

DaysBeforeYear(y) ==
    LET y1 == y - 1 IN y1 * 365 + (y1 \div 4) - (y1 \div 100) + (y1 \div 400)

\* days of year y before the first day of month m
DaysBeforeMonth(y, m) ==
    <<0, 31, 59, 90, 120, 151, 181, 212, 243, 273, 304, 334>>[m]
        + (IF m > 2 /\ IsLeap(y) THEN 1 ELSE 0)

\* date(y, m, d).toordinal()
date_toordinal(y, m, d) == DaysBeforeYear(y) + DaysBeforeMonth(y, m) + d

\* the ordinals of the dates the model computes with
Days == date_toordinal(2019, 1, 1) .. date_toordinal(2027, 12, 31)

\* year, month and day of the date with ordinal n
Ord2Ymd(n) ==
    Bind(CHOOSE yy \in Years : DaysBeforeYear(yy) < n /\ n <= DaysBeforeYear(yy + 1),
         LAMBDA y :
             LET r == n - DaysBeforeYear(y)
                 m == CHOOSE mm \in 1 .. 12 :
                          DaysBeforeMonth(y, mm) < r
                              /\ r <= DaysBeforeMonth(y, mm) + DaysInMonth(y, mm)
             IN  [year |-> y, month |-> m, day |-> r - DaysBeforeMonth(y, m)])

date_year(d) == Ord2Ymd(d).year

date_month(d) == Ord2Ymd(d).month

date_day(d) == Ord2Ymd(d).day

\* date.weekday(): Monday is 0, Sunday is 6
date_weekday(d) == (d + 6) % 7

\* date.fromisoformat("YYYY-MM-DD")
date_fromisoformat(s) == date_toordinal(s[1], s[2], s[3])

\* str(date): the "YYYY-MM-DD" of a date
date_isoformat(d) == <<date_year(d), date_month(d), date_day(d)>>

----------------------------------------------------------------------------
(* Outcomes *)

Return(v) == [exc |-> "none", none |-> FALSE, val |-> v]

\* a call that returns None (or a tuple of None)
ReturnNone == [exc |-> "none", none |-> TRUE, val |-> <<>>]

Raise(e) == [exc |-> e, none |-> FALSE, val |-> <<>>]

----------------------------------------------------------------------------
(* The Habit table and the check dates offered to check_off_habit *)

\* the habits of the user who has several, in the order of their primary keys
HabitTable ==
    << [name |-> "Brush teeth",    periodicity |-> "daily"],
       [name |-> "Dance",          periodicity |-> "weekly"],
       [name |-> "Clean windows",  periodicity |-> "monthly"],
       [name |-> "Clean bathroom", periodicity |-> "weekly"],
       [name |-> "Go to dentist",  periodicity |-> "yearly"] >>

HabitNames == {HabitTable[i].name : i \in 1 .. Len(HabitTable)}

\* the one habit of a user who has a single habit: one per periodicity
SingleHabits == {HabitTable[i] : i \in {i \in 1 .. Len(HabitTable) :
                                          \A j \in 1 .. i - 1 :
                                              HabitTable[j].periodicity # HabitTable[i].periodicity}}

\* the system date at the start: Sunday 2023-12-31, so that the next day
\* opens a new day, a new week, a new month and a new year
Today0 == date_toordinal(2023, 12, 31)

\* explicit check dates offered to a user with a single habit: dates at both
\* ends of the trailing window, neighbouring and skipped periods, two dates in
\* one period, and one date later than the system date
CheckDates(periodicity) ==
    CASE periodicity = "daily" ->
           {<<2023, 12, 3>>, <<2023, 12, 29>>, <<2023, 12, 30>>, <<2024, 1, 2>>}
      [] periodicity = "weekly" ->
           {<<2023, 11, 29>>, <<2023, 12, 20>>, <<2023, 12, 24>>, <<2024, 1, 10>>}
      [] periodicity = "monthly" ->
           {<<2023, 9, 15>>, <<2023, 11, 1>>, <<2023, 11, 30>>, <<2024, 3, 10>>}
      [] periodicity = "yearly" ->
           {<<2020, 2, 29>>, <<2021, 6, 1>>, <<2022, 12, 31>>, <<2026, 5, 5>>}

\* explicit check dates offered to a user with several habits
CheckDatesAll(periodicity) ==
    CASE periodicity = "daily" -> {<<2023, 12, 30>>, <<2024, 1, 2>>}
      [] periodicity = "weekly" -> {<<2023, 12, 20>>}
      [] periodicity = "monthly" -> {<<2023, 11, 30>>}
      [] periodicity = "yearly" -> {<<2022, 12, 31>>}

----------------------------------------------------------------------------
(* Sequence helpers standing for Python list operations *)

Range(s) == {s[i] : i \in 1 .. Len(s)}

\* sorted(S) of a set of integers
SortedSeq(S) ==
    Bind(S, LAMBDA v :
        [i \in 1 .. Cardinality(v) |-> CHOOSE x \in v : Cardinality({y \in v : y < x}) = i - 1])

\* list(map(f, xs))
Map(f(_), xs) == Bind(xs, LAMBDA v : [i \in 1 .. Len(v) |-> f(v[i])])

RECURSIVE SumSeq(_)
SumSeq(s) == IF s = <<>> THEN 0 ELSE s[1] + SumSeq(Tail(s))

\* max(xs) of a non-empty list of integers
MaxOfSeq(s) == CHOOSE x \in Range(s) : \A y \in Range(s) : y <= x

----------------------------------------------------------------------------
(* Period bucketing: analyze.py, str_to_date .. calculate_one_period_start *)

return_completions(habit) == completions[habit.name]

str_to_date(str_dates) == Map(date_fromisoformat, str_dates)

\* faulty variant of weekly_start: the weekday counted from Sunday
\* (isoweekday() % 7 + 1 for weekday())
weekly_start_sunday(check_date) ==
    LET diff_to_monday == date_weekday(check_date) + 1 IN check_date - diff_to_monday

weekly_start(check_date) ==
    LET diff_to_monday == date_weekday(check_date) IN check_date - diff_to_monday

\* faulty variant of monthly_start: check_date.day for check_date.day - 1
monthly_start_day(check_date) ==
    LET diff_to_first == date_day(check_date) IN check_date - diff_to_first

monthly_start(check_date) ==
    LET diff_to_first == date_day(check_date) - 1 IN check_date - diff_to_first

yearly_start(check_date) == date_fromisoformat(<<date_year(check_date), 1, 1>>)

Periodicities == {"daily", "weekly", "monthly", "yearly"}

\* period_start_funcs[periodicity](x)
period_start_func(periodicity, x) ==
    CASE periodicity = "daily" -> x
      [] periodicity = "weekly" -> weekly_start(x)
      [] periodicity = "monthly" -> monthly_start(x)
      [] periodicity = "yearly" -> yearly_start(x)

\* check_dates is a non-empty list of date strings (the rows of a habit)
calculate_period_starts(periodicity, check_dates) ==
    Bind(str_to_date(check_dates), LAMBDA dates :
        [i \in 1 .. Len(dates) |-> period_start_func(periodicity, dates[i])])

\* faulty variant of calculate_one_period_start: the period of the day before
calculate_one_period_start_before(periodicity, check_date) ==
    LET period_start == <<period_start_func(periodicity, check_date - 1)>>
    IN  period_start[1]

\* check_date is a date: the branch of calculate_period_starts without str_to_date
calculate_one_period_start(periodicity, check_date) ==
    LET period_start == <<period_start_func(periodicity, check_date)>>
    IN  period_start[1]

----------------------------------------------------------------------------
(* Period set builder: analyze.py, tidy_starts .. return_final_period_starts *)

\* faulty variant of tidy_starts: the duplicates removed, the order of first
\* occurrence kept (list(dict.fromkeys(...)) for sorted(list(set(...))))
tidy_starts_unsorted(period_starts) ==
    LET first == SortedSeq({i \in 1 .. Len(period_starts) :
                               \A j \in 1 .. i - 1 : period_starts[j] # period_starts[i]})
    IN  [k \in 1 .. Len(first) |-> period_starts[first[k]]]

tidy_starts(period_starts) == SortedSeq(Range(period_starts))

\* timedelta in days
\* faulty variant of return_allowed_time: a year of 365 days and a month of 30
return_allowed_time_short(periodicity) ==
    CASE periodicity = "daily" -> 1
      [] periodicity = "weekly" -> 7
      [] periodicity = "monthly" -> 30
      [] periodicity = "yearly" -> 365

return_allowed_time(periodicity) ==
    CASE periodicity = "daily" -> 1
      [] periodicity = "weekly" -> 7
      [] periodicity = "monthly" -> 32
      [] periodicity = "yearly" -> 366

\* faulty variant of add_future_period: one duration ahead for two
add_future_period_one(tidy_period_starts, periodicity, now) ==
    LET duration == return_allowed_time(periodicity)
        future_period == calculate_one_period_start(periodicity, now + duration)
    IN  Append(tidy_period_starts, future_period)

\* now is the value date.today() returns
add_future_period(tidy_period_starts, periodicity, now) ==
    LET duration == return_allowed_time(periodicity)
        future_period == calculate_one_period_start(periodicity, now + 2 * duration)
    IN  Append(tidy_period_starts, future_period)

\* the list the caller passed as tidy_period_starts, after the call:
\* period_starts = tidy_period_starts binds a second name to the same list
\* object, so period_starts.append(...) appends to the caller's list
add_future_period_argument(tidy_period_starts, periodicity, now) ==
    LET period_starts == add_future_period(tidy_period_starts, periodicity, now)
    IN  period_starts

\* of a habit with at least one completion
final_period_starts(habit, now) ==
    LET check_dates == return_completions(habit)
        period_starts == calculate_period_starts(habit.periodicity, check_dates)
        tidy_periods == tidy_starts(period_starts)
    IN  add_future_period(tidy_periods, habit.periodicity, now)

\* faulty variant of return_final_period_starts: a periodicity that is not a key
\* of period_start_funcs is bucketed like "daily" (dict.get with a default)
return_final_period_starts_default(habit) ==
    IF return_completions(habit) = <<>> THEN Raise("IndexError")
    ELSE IF habit.periodicity \notin Periodicities
    THEN Return(final_period_starts([habit EXCEPT !.periodicity = "daily"], today))
    ELSE Return(final_period_starts(habit, today))

\* calculate_period_starts reads check_dates[0]: IndexError on an empty list;
\* period_start_funcs[periodicity]: KeyError for any other periodicity
return_final_period_starts(habit) ==
    IF return_completions(habit) = <<>> THEN Raise("IndexError")
    ELSE IF habit.periodicity \notin Periodicities THEN Raise("KeyError")
    ELSE Return(final_period_starts(habit, today))

----------------------------------------------------------------------------
(* Streak / break analyzer *)

\* [t - s for s, t in zip(xs, xs[1:])]
element_diffs_of(xs) ==
    IF Len(xs) <= 1 THEN <<>> ELSE [i \in 1 .. Len(xs) - 1 |-> xs[i + 1] - xs[i]]

calculate_element_diffs(final_periods) == Bind(final_periods, element_diffs_of)

\* faulty variant of calculate_break_indices: a difference equal to the allowed
\* time already counts as a break (>= for >)
calculate_break_indices_ge(final_periods, periodicity) ==
    Bind(calculate_element_diffs(final_periods), LAMBDA diffs :
        LET allowed_time == return_allowed_time(periodicity)
        IN  SortedSeq({index \in 0 .. Len(diffs) - 1 : diffs[index + 1] >= allowed_time}))

\* the 0-based indices of the differences greater than the allowed time
calculate_break_indices(final_periods, periodicity) ==
    Bind(calculate_element_diffs(final_periods), LAMBDA diffs :
        LET allowed_time == return_allowed_time(periodicity)
        IN  SortedSeq({index \in 0 .. Len(diffs) - 1 : diffs[index + 1] > allowed_time}))

streak_lengths_of(final_periods, periodicity) ==
    LET break_indices == calculate_break_indices(final_periods, periodicity)
        streak_lengths == <<-1>> \o break_indices
    IN  calculate_element_diffs(streak_lengths)

calculate_streak_lengths(habit) ==
    IF return_final_period_starts(habit).exc # "none" THEN return_final_period_starts(habit)
    ELSE Return(streak_lengths_of(final_period_starts(habit, today), habit.periodicity))

\* faulty variant of calculate_longest_streak: the first streak for the longest
\* (streak_lengths[0] for max(streak_lengths))
calculate_longest_streak_first(habit) ==
    Bind(calculate_streak_lengths(habit), LAMBDA streak_lengths :
        IF streak_lengths.exc # "none" THEN streak_lengths
        ELSE IF streak_lengths.val = <<>> THEN Raise("IndexError")
        ELSE Return(streak_lengths.val[1]))

\* max() of an empty list raises ValueError
calculate_longest_streak(habit) ==
    Bind(calculate_streak_lengths(habit), LAMBDA streak_lengths :
        IF streak_lengths.exc # "none" THEN streak_lengths
        ELSE IF streak_lengths.val = <<>> THEN Raise("ValueError")
        ELSE Return(MaxOfSeq(streak_lengths.val)))

----------------------------------------------------------------------------
(* Python dict as the list of its <<key, value>> items in insertion order *)

DictKeys(d) == [i \in 1 .. Len(d) |-> d[i][1]]

DictGet(d, k) == d[CHOOSE i \in 1 .. Len(d) : d[i][1] = k][2]

\* dict(zip(keys, values)): zip stops at the shorter list; a key keeps the
\* place of its first item and the value of its last
DictZip(keys, values) ==
    LET n == IF Len(keys) <= Len(values) THEN Len(keys) ELSE Len(values)
        first == SortedSeq({i \in 1 .. n : \A j \in 1 .. i - 1 : keys[j] # keys[i]})
        last(k) == CHOOSE i \in 1 .. n : keys[i] = k /\ \A j \in i + 1 .. n : keys[j] # k
    IN  [p \in 1 .. Len(first) |-> <<keys[first[p]], values[last(keys[first[p]])]>>]

----------------------------------------------------------------------------
(* float: a completion rate n / d is kept as <<n, d>>; the quotients that    *)
(* occur (k/28, k/4) are equal as floats exactly when equal as fractions    *)

FloatEq(a, b) == a[1] * b[2] = b[1] * a[2]

FloatLt(a, b) == a[1] * b[2] < b[1] * a[2]

----------------------------------------------------------------------------
(* Cross-habit longest streak *)

\* the first exception raised by the calls, in list order, or "none"
FirstExc(outcomes) ==
    IF \A i \in 1 .. Len(outcomes) : outcomes[i].exc = "none" THEN "none"
    ELSE outcomes[CHOOSE i \in 1 .. Len(outcomes) :
                      /\ outcomes[i].exc # "none"
                      /\ \A j \in 1 .. i - 1 : outcomes[j].exc = "none"].exc

longest_streak_per_habit_of(completed_habits) ==
    IF Len(completed_habits) = 0 THEN ReturnNone
    ELSE LET habit_names == [i \in 1 .. Len(completed_habits) |-> completed_habits[i].name]
         IN  Bind(Map(calculate_longest_streak, completed_habits),
                  LAMBDA longest_streaks :
                      IF FirstExc(longest_streaks) # "none"
                      THEN Raise(FirstExc(longest_streaks))
                      ELSE Return(DictZip(habit_names,
                                          [i \in 1 .. Len(longest_streaks) |->
                                               longest_streaks[i].val])))

calculate_longest_streak_per_habit(completed_habits) ==
    Bind(completed_habits, longest_streak_per_habit_of)

\* max(d, key=d.get): the first key whose value no other value exceeds
MaxKey(d) ==
    d[CHOOSE i \in 1 .. Len(d) :
          /\ \A j \in 1 .. Len(d) : d[j][2] <= d[i][2]
          /\ \A j \in 1 .. i - 1 : d[j][2] < d[i][2]][1]

\* faulty variant of longest_streak_of_all_of: only the first habit with the
\* longest streak is named
longest_streak_of_all_first(longest_streaks) ==
    IF longest_streaks.exc # "none" THEN longest_streaks
    ELSE IF longest_streaks.none \/ longest_streaks.val = <<>> THEN ReturnNone
    ELSE LET d == longest_streaks.val
         IN  Return(<<DictGet(d, MaxKey(d)), <<MaxKey(d)>> >>)

\* longest_streaks is what calculate_longest_streak_per_habit returned
longest_streak_of_all_of(longest_streaks) ==
    IF longest_streaks.exc # "none" THEN longest_streaks
    ELSE IF longest_streaks.none \/ longest_streaks.val = <<>> THEN ReturnNone
    ELSE LET d == longest_streaks.val
             longest_streak_of_all == DictGet(d, MaxKey(d))
             best_habits == DictKeys(SelectSeq(d, LAMBDA item : item[2] = longest_streak_of_all))
         IN  Return(<<longest_streak_of_all, best_habits>>)

calculate_longest_streak_of_all(completed_habits) ==
    Bind(calculate_longest_streak_per_habit(completed_habits), longest_streak_of_all_of)

----------------------------------------------------------------------------
(* Point-in-time queries and the metrics built on them *)

\* faulty variant of completed_in_period: the previous period looked up one
\* allowed time before the current period start (return_allowed_time for
\* timedelta(days=1))
completed_in_period_gap(final_periods, periodicity, period, now) ==
    Bind(calculate_one_period_start(periodicity, now), LAMBDA cur_period_start :
        IF period = "current" THEN cur_period_start \in Range(final_periods)
        ELSE LET prev_period_start ==
                     calculate_one_period_start(
                         periodicity, cur_period_start - return_allowed_time(periodicity))
             IN  prev_period_start \in Range(final_periods))

\* final_periods is a list of dates; now is the value date.today() returns
completed_in_period(final_periods, periodicity, period, now) ==
    Bind(calculate_one_period_start(periodicity, now), LAMBDA cur_period_start :
        IF period = "current" THEN cur_period_start \in Range(final_periods)
        ELSE LET prev_period_start ==
                     calculate_one_period_start(periodicity, cur_period_start - 1)
             IN  prev_period_start \in Range(final_periods))

\* faulty variant of calculate_curr_streak: no streak without a completion in
\* the previous period (return 0 for the inner if/else)
calculate_curr_streak_zero(habit) ==
    Bind(return_final_period_starts(habit), LAMBDA final_periods :
        IF final_periods.exc # "none" THEN final_periods
        ELSE IF ~completed_in_period(final_periods.val, habit.periodicity, "previous", today)
        THEN Return(0)
        ELSE Bind(calculate_streak_lengths(habit), LAMBDA streak_lengths :
                 IF streak_lengths.exc # "none" THEN streak_lengths
                 ELSE IF streak_lengths.val = <<>> THEN Raise("IndexError")
                 ELSE Return(streak_lengths.val[Len(streak_lengths.val)])))

\* faulty variant of calculate_curr_streak: the first streak for the last
\* (streak_lengths[0] for streak_lengths[-1])
calculate_curr_streak_first(habit) ==
    Bind(return_final_period_starts(habit), LAMBDA final_periods :
        IF final_periods.exc # "none" THEN final_periods
        ELSE IF ~completed_in_period(final_periods.val, habit.periodicity, "previous", today)
        THEN (IF ~completed_in_period(final_periods.val, habit.periodicity, "current", today)
              THEN Return(0) ELSE Return(1))
        ELSE Bind(calculate_streak_lengths(habit), LAMBDA streak_lengths :
                 IF streak_lengths.exc # "none" THEN streak_lengths
                 ELSE IF streak_lengths.val = <<>> THEN Raise("IndexError")
                 ELSE Return(streak_lengths.val[1])))

\* streak_lengths[-1] of an empty list raises IndexError
calculate_curr_streak(habit) ==
    Bind(return_final_period_starts(habit), LAMBDA final_periods :
        IF final_periods.exc # "none" THEN final_periods
        ELSE IF ~completed_in_period(final_periods.val, habit.periodicity, "previous", today)
        THEN (IF ~completed_in_period(final_periods.val, habit.periodicity, "current", today)
              THEN Return(0) ELSE Return(1))
        ELSE Bind(calculate_streak_lengths(habit), LAMBDA streak_lengths :
                 IF streak_lengths.exc # "none" THEN streak_lengths
                 ELSE IF streak_lengths.val = <<>> THEN Raise("IndexError")
                 ELSE Return(streak_lengths.val[Len(streak_lengths.val)])))

\* faulty variant of calculate_break_no: one break less only when both the
\* current and the previous period are completed (and for or)
calculate_break_no_and(habit) ==
    Bind(return_final_period_starts(habit), LAMBDA final_periods :
        IF final_periods.exc # "none" THEN final_periods
        ELSE LET break_indices == calculate_break_indices(final_periods.val, habit.periodicity)
                 curr_period == completed_in_period(final_periods.val, habit.periodicity,
                                                    "current", today)
                 prev_period == completed_in_period(final_periods.val, habit.periodicity,
                                                    "previous", today)
             IN  IF curr_period /\ prev_period
                 THEN Return(Len(break_indices) - 1)
                 ELSE Return(Len(break_indices)))

calculate_break_no(habit) ==
    Bind(return_final_period_starts(habit), LAMBDA final_periods :
        IF final_periods.exc # "none" THEN final_periods
        ELSE LET break_indices == calculate_break_indices(final_periods.val, habit.periodicity)
                 curr_period == completed_in_period(final_periods.val, habit.periodicity,
                                                    "current", today)
                 prev_period == completed_in_period(final_periods.val, habit.periodicity,
                                                    "previous", today)
             IN  IF curr_period \/ prev_period
                 THEN Return(Len(break_indices) - 1)
                 ELSE Return(Len(break_indices)))

\* faulty variant of calculate_completion_rate: the current period counts
\* (x <= cur_period for x < cur_period)
calculate_completion_rate_le(habit) ==
    Bind(return_final_period_starts(habit), LAMBDA final_periods :
        IF final_periods.exc # "none" THEN final_periods
        ELSE Bind(calculate_one_period_start(habit.periodicity, today), LAMBDA cur_period :
                 LET no_possible_periods == IF habit.periodicity = "daily" THEN 28 ELSE 4
                     period_4_weeks_ago ==
                         calculate_one_period_start(habit.periodicity, cur_period - 4 * 7)
                     completed_periods_4_weeks ==
                         SelectSeq(final_periods.val,
                                   LAMBDA x : period_4_weeks_ago <= x /\ x <= cur_period)
                 IN  Return(<<Len(completed_periods_4_weeks), no_possible_periods>>)))

\* timedelta(weeks=4) is 28 days
calculate_completion_rate(habit) ==
    Bind(return_final_period_starts(habit), LAMBDA final_periods :
        IF final_periods.exc # "none" THEN final_periods
        ELSE Bind(calculate_one_period_start(habit.periodicity, today), LAMBDA cur_period :
                 LET no_possible_periods == IF habit.periodicity = "daily" THEN 28 ELSE 4
                     period_4_weeks_ago ==
                         calculate_one_period_start(habit.periodicity, cur_period - 4 * 7)
                     completed_periods_4_weeks ==
                         SelectSeq(final_periods.val,
                                   LAMBDA x : period_4_weeks_ago <= x /\ x < cur_period)
                 IN  Return(<<Len(completed_periods_4_weeks), no_possible_periods>>)))

\* faulty variant of completion_rate_per_habit_of: the rate of every completed
\* habit, monthly and yearly ones included
completion_rate_per_habit_unfiltered(completed_habits) ==
    LET habit_names == [i \in 1 .. Len(completed_habits) |-> completed_habits[i].name]
    IN  Bind(Map(calculate_completion_rate, completed_habits),
             LAMBDA completion_rates :
                 IF FirstExc(completion_rates) # "none"
                 THEN Raise(FirstExc(completion_rates))
                 ELSE Return(DictZip(habit_names,
                                     [i \in 1 .. Len(completion_rates) |->
                                          completion_rates[i].val])))

completion_rate_per_habit_of(completed_habits) ==
    LET frequent_habits ==
            SelectSeq(completed_habits, LAMBDA habit : habit.periodicity \in {"daily", "weekly"})
        habit_names == [i \in 1 .. Len(frequent_habits) |-> frequent_habits[i].name]
    IN  Bind(Map(calculate_completion_rate, frequent_habits),
             LAMBDA completion_rates :
                 IF FirstExc(completion_rates) # "none"
                 THEN Raise(FirstExc(completion_rates))
                 ELSE Return(DictZip(habit_names,
                                     [i \in 1 .. Len(completion_rates) |->
                                          completion_rates[i].val])))

calculate_completion_rate_per_habit(completed_habits) ==
    Bind(completed_habits, completion_rate_per_habit_of)

\* min(d, key=d.get): the first key whose value is not above any other value
MinKey(d) ==
    d[CHOOSE i \in 1 .. Len(d) :
          /\ \A j \in 1 .. Len(d) : ~FloatLt(d[j][2], d[i][2])
          /\ \A j \in 1 .. i - 1 : FloatLt(d[i][2], d[j][2])][1]

\* completion_rates is what calculate_completion_rate_per_habit returned;
\* min() of an empty dict raises ValueError
worst_completion_rate_of_all_of(completion_rates) ==
    IF completion_rates.exc # "none" THEN completion_rates
    ELSE IF completion_rates.val = <<>> THEN Raise("ValueError")
    ELSE LET d == completion_rates.val
             lowest_completion_rate == DictGet(d, MinKey(d))
             worst_habits ==
                 DictKeys(SelectSeq(d, LAMBDA item : FloatEq(item[2], lowest_completion_rate)))
         IN  Return(<<lowest_completion_rate, worst_habits>>)

calculate_worst_completion_rate_of_all(completed_habits) ==
    Bind(calculate_completion_rate_per_habit(completed_habits), worst_completion_rate_of_all_of)

\* faulty variant of find_completed_habits: the habits with at least two
\* completions (len(value) > 1 for len(value) > 0)
find_completed_habits_two(habit_list) ==
    LET check_dates == Map(return_completions, habit_list)
        habit_indices ==
            SortedSeq({index \in 1 .. Len(habit_list) : Len(check_dates[index]) > 1})
    IN  [k \in 1 .. Len(habit_indices) |-> habit_list[habit_indices[k]]]

find_completed_habits(habit_list) ==
    LET check_dates == Map(return_completions, habit_list)
        habit_indices ==
            SortedSeq({index \in 1 .. Len(habit_list) : Len(check_dates[index]) > 0})
    IN  [k \in 1 .. Len(habit_indices) |-> habit_list[habit_indices[k]]]

\* HabitDB.analyze_habit: the method body is pass, the call returns None
analyze_habit(habit) == <<>>

\* analysis_dict of analyze_all_habits, the columns of the returned data frame:
\* one pair (name, analyze_habit()) per habit analyze_habit was called on
analyze_all_habits(habit_list) ==
    LET completed_habits == find_completed_habits(habit_list)
    IN  [k \in 1 .. Len(completed_habits) |->
            <<completed_habits[k].name, analyze_habit(completed_habits[k])>>]

----------------------------------------------------------------------------
(* The state machine *)

\* number of rows of the Completions table
RECURSIVE CountRows(_)
CountRows(names) ==
    IF names = {} THEN 0
    ELSE LET n == CHOOSE x \in names : TRUE
         IN  Len(completions[n]) + CountRows(names \ {n})

\* Python's None as the value of an attribute that otherwise holds a date string
None == <<>>

NoResult == [op |-> "none", arg |-> <<>>, out |-> ReturnNone]

Reverse(s) == [i \in 1 .. Len(s) |-> s[Len(s) + 1 - i]]

\* a user with one habit, of any periodicity, and no completion yet
Init ==
    /\ today = Today0
    /\ defined_habits \in {<<habit>> : habit \in SingleHabits}
    /\ completions = [n \in HabitNames |-> <<>>]
    /\ last_completion = [n \in HabitNames |-> None]
    /\ result = NoResult

\* a user with several habits and no completion yet
InitAll ==
    /\ today = Today0
    /\ defined_habits = HabitTable
    /\ completions = [n \in HabitNames |-> <<>>]
    /\ last_completion = [n \in HabitNames |-> None]
    /\ result = NoResult

\* db.add_completion: one more row (FKHabitID, CompletionDate) for the habit
add_completion(habit, check_date) ==
    completions' = [completions EXCEPT ![habit.name] = Append(@, check_date)]

RowsLeft ==
    CountRows(HabitNames) < (IF Len(defined_habits) = 1 THEN MaxCompletions ELSE MaxCompletionsAll)

\* habit.check_off_habit(check_date) with an explicit check date (at midnight):
\* last_completion moves only to a later date
CheckOffHabit(habit, check_date) ==
    /\ result.op = "none"
    /\ RowsLeft
    /\ last_completion' =
           IF \/ last_completion[habit.name] = None
              \/ date_fromisoformat(check_date)
                     > date_fromisoformat(last_completion[habit.name])
           THEN [last_completion EXCEPT ![habit.name] = check_date]
           ELSE last_completion
    /\ add_completion(habit, check_date)
    /\ UNCHANGED <<today, defined_habits, result>>

\* habit.check_off_habit(): last_completion and the check date are
\* str(datetime.now())
CheckOffHabitNow(habit) ==
    /\ result.op = "none"
    /\ RowsLeft
    /\ last_completion' = [last_completion EXCEPT ![habit.name] = date_isoformat(today)]
    /\ add_completion(habit, date_isoformat(today))
    /\ UNCHANGED <<today, defined_habits, result>>

\* midnight: date.today() returns the next day from now on
Tick ==
    /\ result.op = "none"
    /\ today < Today0 + MaxDays
    /\ today' = today + 1
    /\ UNCHANGED <<defined_habits, completions, last_completion, result>>

\* a call of one of the per-habit analysis functions; result is what it returns
Call(op, habit, out) ==
    /\ result.op = "none"
    /\ result' = [op |-> op, arg |-> habit.name, out |-> out]
    /\ UNCHANGED <<today, defined_habits, completions, last_completion>>

\* a call of a cross-habit function on the completed habits of habits
CallAll(op, habits, out) ==
    /\ result.op = "none"
    /\ result' = [op |-> op, arg |-> habits, out |-> out]
    /\ UNCHANGED <<today, defined_habits, completions, last_completion>>

\* the caller has taken the returned value
Dismiss ==
    /\ result.op # "none"
    /\ result' = NoResult
    /\ UNCHANGED <<today, defined_habits, completions, last_completion>>

ReturnFinalPeriodStarts(habit) ==
    Call("return_final_period_starts", habit, return_final_period_starts(habit))

\* calculate_break_indices on the final period starts of the habit
CalculateBreakIndices(habit) ==
    Call("calculate_break_indices", habit,
         Bind(return_final_period_starts(habit), LAMBDA final_periods :
             IF final_periods.exc # "none" THEN final_periods
             ELSE Return(calculate_break_indices(final_periods.val, habit.periodicity))))

CalculateStreakLengths(habit) ==
    Call("calculate_streak_lengths", habit, calculate_streak_lengths(habit))

CalculateLongestStreak(habit) ==
    Call("calculate_longest_streak", habit, calculate_longest_streak(habit))

\* completed_in_period(return_final_period_starts(habit), habit.periodicity, period)
CompletedInPeriod(habit, period) ==
    /\ result.op = "none"
    /\ result' = [op |-> "completed_in_period", arg |-> habit.name, period |-> period,
                  out |-> Bind(return_final_period_starts(habit), LAMBDA final_periods :
                              IF final_periods.exc # "none" THEN final_periods
                              ELSE Return(completed_in_period(final_periods.val,
                                                              habit.periodicity, period,
                                                              today)))]
    /\ UNCHANGED <<today, defined_habits, completions, last_completion>>

CalculateCurrStreak(habit) ==
    Call("calculate_curr_streak", habit, calculate_curr_streak(habit))

CalculateBreakNo(habit) ==
    Call("calculate_break_no", habit, calculate_break_no(habit))

CalculateCompletionRate(habit) ==
    Call("calculate_completion_rate", habit, calculate_completion_rate(habit))

CalculateLongestStreakOfAll(habits) ==
    CallAll("calculate_longest_streak_of_all", habits,
            calculate_longest_streak_of_all(find_completed_habits(habits)))

CalculateWorstCompletionRateOfAll(habits) ==
    CallAll("calculate_worst_completion_rate_of_all", habits,
            calculate_worst_completion_rate_of_all(find_completed_habits(habits)))

FindCompletedHabits(habits) ==
    CallAll("find_completed_habits", habits, Return(find_completed_habits(habits)))

AnalyzeAllHabits(habits) ==
    CallAll("analyze_all_habits", habits, Return(analyze_all_habits(habits)))

CheckOff ==
    \E i \in 1 .. Len(defined_habits) :
        \/ \E check_date \in (IF Len(defined_habits) = 1
                              THEN CheckDates(defined_habits[i].periodicity)
                              ELSE CheckDatesAll(defined_habits[i].periodicity)) :
               CheckOffHabit(defined_habits[i], check_date)
        \/ CheckOffHabitNow(defined_habits[i])

\* one user, one habit: the per-habit analysis
Next ==
    \/ CheckOff
    \/ Tick
    \/ Dismiss
    \/ \E i \in 1 .. Len(defined_habits) : ReturnFinalPeriodStarts(defined_habits[i])
    \/ \E i \in 1 .. Len(defined_habits) : CalculateBreakIndices(defined_habits[i])
    \/ \E i \in 1 .. Len(defined_habits) : CalculateStreakLengths(defined_habits[i])
    \/ \E i \in 1 .. Len(defined_habits) : CalculateLongestStreak(defined_habits[i])
    \/ \E i \in 1 .. Len(defined_habits), period \in {"current", "previous"} :
           CompletedInPeriod(defined_habits[i], period)
    \/ \E i \in 1 .. Len(defined_habits) : CalculateCurrStreak(defined_habits[i])
    \/ \E i \in 1 .. Len(defined_habits) : CalculateBreakNo(defined_habits[i])
    \/ \E i \in 1 .. Len(defined_habits) : CalculateCompletionRate(defined_habits[i])

Spec == Init /\ [][Next]_vars

\* one user, several habits: the cross-habit analysis of the habits in
\* primary-key order and in reverse order
NextAll ==
    \/ CheckOff
    \/ Tick
    \/ Dismiss
    \/ \E habits \in {defined_habits, Reverse(defined_habits)} : CalculateLongestStreakOfAll(habits)
    \/ \E habits \in {defined_habits, Reverse(defined_habits)} : CalculateWorstCompletionRateOfAll(habits)
    \/ \E habits \in {defined_habits, Reverse(defined_habits)} : FindCompletedHabits(habits)
    \/ \E habits \in {defined_habits, Reverse(defined_habits)} : AnalyzeAllHabits(habits)

SpecAll == InitAll /\ [][NextAll]_vars

----------------------------------------------------------------------------
(* Reference notions the properties are stated with: calendar periods,      *)
(* completed periods and runs, defined without the operators of analyze.py  *)

\* the first day of the calendar period of the given periodicity holding date d
PeriodOf(periodicity, d) ==
    CASE periodicity = "daily" -> d
      [] periodicity = "weekly" -> CHOOSE m \in (d - 6) .. d : date_weekday(m) = 0
      [] periodicity = "monthly" -> date_toordinal(date_year(d), date_month(d), 1)
      [] periodicity = "yearly" -> date_toordinal(date_year(d), 1, 1)

AllowedGap(periodicity) ==
    CASE periodicity = "daily" -> 1
      [] periodicity = "weekly" -> 7
      [] periodicity = "monthly" -> 32
      [] periodicity = "yearly" -> 366

CompletionDates(habit) ==
    {date_toordinal(c[1], c[2], c[3]) : c \in Range(completions[habit.name])}

HasCompletions(habit) == completions[habit.name] # <<>>

NoCompletionAfterToday(habit) == \A d \in CompletionDates(habit) : d <= today

\* the periods with at least one completion
CompletedPeriods(habit) == {PeriodOf(habit.periodicity, d) : d \in CompletionDates(habit)}

CurrentPeriod(periodicity) == PeriodOf(periodicity, today)

PreviousPeriod(periodicity) == PeriodOf(periodicity, CurrentPeriod(periodicity) - 1)

FuturePeriod(periodicity) == PeriodOf(periodicity, today + 2 * AllowedGap(periodicity))

\* the period set: the completed periods and the synthetic future period
PeriodSet(habit) == CompletedPeriods(habit) \cup {FuturePeriod(habit.periodicity)}

\* the lengths, in chronological order, of the maximal runs of the periods P in
\* which neighbouring periods are at most gap days apart
RunLengths(P, gap) ==
    LET starts == SortedSeq({x \in P : ~\E y \in P : y < x /\ x - y <= gap})
    IN  [i \in 1 .. Len(starts) |->
            Cardinality({x \in P : /\ starts[i] <= x
                                   /\ (i = Len(starts) \/ x < starts[i + 1])})]

\* the habit a per-habit call was made for
CalledHabit == CHOOSE habit \in Range(defined_habits) : habit.name = result.arg

Called(op) == result.op = op

----------------------------------------------------------------------------
(* Properties *)

\* C1: for every periodicity and every non-empty completion history with no
\* date after today, calculate_streak_lengths returns, in chronological order,
\* exactly the lengths of the maximal runs of completed periods (neighbouring
\* period starts at most 1, 7, 32 or 366 days apart); the daily completions of
\* 2021-12-24..27 and 2022-01-01 give [4, 1].
C1_StreakLengthsAreRunLengths ==
    /\ (Called("calculate_streak_lengths")
           /\ HasCompletions(CalledHabit) /\ NoCompletionAfterToday(CalledHabit))
       => result.out = Return(RunLengths(CompletedPeriods(CalledHabit),
                                         AllowedGap(CalledHabit.periodicity)))
    /\ streak_lengths_of(
           add_future_period(
               tidy_starts(calculate_period_starts("daily",
                   << <<2021, 12, 24>>, <<2021, 12, 25>>, <<2021, 12, 26>>,
                      <<2021, 12, 27>>, <<2022, 1, 1>> >>)),
               "daily", today),
           "daily") = <<4, 1>>

\* C1 witness: a call on a history in the past with a run of two periods
\* followed by a run of one
C1_Witness ==
    /\ Called("calculate_streak_lengths")
    /\ HasCompletions(CalledHabit) /\ NoCompletionAfterToday(CalledHabit)
    /\ result.out = Return(<<2, 1>>)

C3_BreakNoRule ==
    (Called("calculate_break_no") /\ HasCompletions(CalledHabit))
    => LET habit == CalledHabit
           break_indices ==
               calculate_break_indices(return_final_period_starts(habit).val,
                                       habit.periodicity)
           live == \/ CurrentPeriod(habit.periodicity) \in PeriodSet(habit)
                   \/ PreviousPeriod(habit.periodicity) \in PeriodSet(habit)
       IN  /\ result.out = Return(IF live THEN Len(break_indices) - 1
                                  ELSE Len(break_indices))
           /\ NoCompletionAfterToday(habit) => result.out.val >= 0

\* C3 witness: only the previous period of the two is completed, in the past,
\* and one break is reported
C3_Witness ==
    /\ Called("calculate_break_no")
    /\ NoCompletionAfterToday(CalledHabit)
    /\ CurrentPeriod(CalledHabit.periodicity) \notin PeriodSet(CalledHabit)
    /\ PreviousPeriod(CalledHabit.periodicity) \in PeriodSet(CalledHabit)
    /\ result.out = Return(1)

\* C4: for any non-empty completion history and any periodicity the break
\* index list of the final period starts is non-empty and its last entry is
\* the index of the final gap, the one between the last real period start and
\* the synthetic future period.
C4_AlwaysAFinalBreak ==
    (Called("calculate_break_indices") /\ HasCompletions(CalledHabit))
    => LET break_indices == result.out.val
           final_periods == return_final_period_starts(CalledHabit).val
       IN  /\ result.out.exc = "none"
           /\ break_indices # <<>>
           /\ break_indices[Len(break_indices)] = Len(final_periods) - 2

\* C5: for every periodicity and every non-empty completion list the sequence
\* returned by return_final_period_starts is strictly increasing, hence free of
\* duplicates.
C5_FinalPeriodStartsIncrease ==
    (Called("return_final_period_starts") /\ HasCompletions(CalledHabit))
    => LET final_periods == result.out.val
       IN  /\ result.out.exc = "none"
           /\ \A i \in 1 .. Len(final_periods) - 1 :
                  final_periods[i] < final_periods[i + 1]

\* C6: for every non-empty completion history the streak lengths add up to the
\* length of the final period-start sequence minus one, the number of real
\* completed periods.
C6_StreaksCountRealPeriods ==
    (Called("calculate_streak_lengths") /\ HasCompletions(CalledHabit))
    => /\ result.out.exc = "none"
       /\ SumSeq(result.out.val)
              = Len(return_final_period_starts(CalledHabit).val) - 1

\* the completed periods of the trailing window of the completion rate: the
\* four weeks before the start of the current period
WindowPeriods(habit) ==
    {p \in CompletedPeriods(habit) :
        /\ CurrentPeriod(habit.periodicity) - 28 <= p
        /\ p < CurrentPeriod(habit.periodicity)}

\* the completion rate as numerator and denominator
WindowRate(habit) ==
    <<Cardinality(WindowPeriods(habit)), IF habit.periodicity = "daily" THEN 28 ELSE 4>>

C8_NoRateForMonthlyOrYearly ==
    (/\ Called("calculate_completion_rate")
     /\ HasCompletions(CalledHabit)
     /\ CalledHabit.periodicity \in {"monthly", "yearly"})
    => (result.out.exc # "none" \/ result.out.none)

\* the completed habits a cross-habit call was made on, in input order
CalledHabits == find_completed_habits(result.arg)

C10_WorstRateOverDailyAndWeekly ==
    /\ LET frequent == {i \in 1 .. Len(CalledHabits) :
                           CalledHabits[i].periodicity \in {"daily", "weekly"}}
           worst == {i \in frequent :
                        \A j \in frequent : ~FloatLt(WindowRate(CalledHabits[j]),
                                                     WindowRate(CalledHabits[i]))}
       IN  (Called("calculate_worst_completion_rate_of_all") /\ frequent # {})
           => /\ result.out.exc = "none" /\ ~result.out.none
              /\ \A i \in worst : FloatEq(result.out.val[1], WindowRate(CalledHabits[i]))
              /\ Range(result.out.val[2]) = {CalledHabits[i].name : i \in worst}
              /\ Len(result.out.val[2]) = Cardinality(worst)
    /\ LET out == worst_completion_rate_of_all_of(
                      Return(<< <<"A", <<6, 28>> >>, <<"B", <<2, 4>> >>, <<"C", <<0, 4>> >> >>))
       IN  /\ out.exc = "none"
           /\ FloatEq(out.val[1], <<0, 1>>)
           /\ out.val[2] = <<"C">>

\* C10 witness: a daily habit with the lower rate is named alone although a
\* weekly and a monthly habit are completed too
C10_Witness ==
    /\ Called("calculate_worst_completion_rate_of_all")
    /\ {CalledHabits[i].periodicity : i \in 1 .. Len(CalledHabits)}
           = {"daily", "weekly", "monthly"}
    /\ result.out = Return(<< <<1, 28>>, <<"Brush teeth">> >>)

\* C11: both cross-habit reducers return an explicit 'no data' result and do
\* not raise when there is nothing to reduce over: calculate_longest_streak_of_all
\* and calculate_worst_completion_rate_of_all on an empty list, the latter also
\* on a list without a daily or weekly habit.
C11_ReducersReportNoData ==
    /\ (Called("calculate_longest_streak_of_all") /\ CalledHabits = <<>>)
       => result.out = ReturnNone
    /\ (/\ Called("calculate_worst_completion_rate_of_all")
        /\ \A i \in 1 .. Len(CalledHabits) :
               CalledHabits[i].periodicity \notin {"daily", "weekly"})
       => (result.out.exc = "none" /\ result.out.none)

----------------------------------------------------------------------------
(* The calendar: the bucketing and the period set builder at every system   *)
(* date of a range that holds month ends, a 29 February and three year ends *)

CalendarDays == (Today0 - MaxSpan) .. (Today0 + MaxSpan)

\* a user with one habit, of any periodicity, on any day of the range
InitCalendar ==
    /\ today \in CalendarDays
    /\ defined_habits \in {<<habit>> : habit \in SingleHabits}
    /\ completions = [n \in HabitNames |-> <<>>]
    /\ last_completion = [n \in HabitNames |-> None]
    /\ result = NoResult

\* calculate_one_period_start(periodicity, check_date);
\* period_start_funcs[periodicity] raises KeyError for an unknown periodicity
CalculateOnePeriodStart(periodicity, check_date) ==
    /\ result.op = "none"
    /\ result' = [op |-> "calculate_one_period_start",
                  arg |-> <<periodicity, check_date>>,
                  out |-> IF periodicity \in Periodicities
                          THEN Return(calculate_one_period_start(periodicity, check_date))
                          ELSE Raise("KeyError")]
    /\ UNCHANGED <<today, defined_habits, completions, last_completion>>

\* tidy_period_starts is a list the caller holds; caller is that list after
\* the call add_future_period(tidy_period_starts, habit.periodicity)
CallAddFuturePeriod(habit, tidy_period_starts) ==
    result' = [op |-> "add_future_period", arg |-> habit.name,
               given |-> tidy_period_starts,
               caller |-> add_future_period_argument(tidy_period_starts,
                                                     habit.periodicity, today),
               out |-> Return(add_future_period(tidy_period_starts,
                                                habit.periodicity, today))]

\* add_future_period on the tidy period starts of the rows of a habit
AddFuturePeriod(habit) ==
    /\ result.op = "none"
    /\ return_completions(habit) # <<>>
    /\ CallAddFuturePeriod(habit,
           tidy_starts(calculate_period_starts(habit.periodicity, return_completions(habit))))
    /\ UNCHANGED <<today, defined_habits, completions, last_completion>>

\* the caller calls add_future_period once more on the list it holds
AddFuturePeriodAgain(habit) ==
    /\ result.op = "add_future_period"
    /\ result.arg = habit.name
    /\ result.given
           = tidy_starts(calculate_period_starts(habit.periodicity, return_completions(habit)))
    /\ CallAddFuturePeriod(habit, result.caller)
    /\ UNCHANGED <<today, defined_habits, completions, last_completion>>

\* the bucketing of date.today(), check-offs at the system date and the
\* period set builder
NextCalendar ==
    \/ \E i \in 1 .. Len(defined_habits) : AddFuturePeriod(defined_habits[i])
    \/ \E i \in 1 .. Len(defined_habits) : AddFuturePeriodAgain(defined_habits[i])
    \/ \E i \in 1 .. Len(defined_habits) :
           CalculateOnePeriodStart(defined_habits[i].periodicity, today)
    \/ \E i \in 1 .. Len(defined_habits) : CheckOffHabitNow(defined_habits[i])
    \/ \E i \in 1 .. Len(defined_habits) : ReturnFinalPeriodStarts(defined_habits[i])
    \/ Dismiss

SpecCalendar == InitCalendar /\ [][NextCalendar]_vars

\* Monday 2024-01-01 and every seventh day before and after it
IsMonday(d) == (d - date_toordinal(2024, 1, 1)) % 7 = 0

\* C12: for weekly periodicity the period start of any date d is the Monday on
\* or before d: it is a Monday, it is not after d and d is at most 6 days
\* after it (a Monday maps to itself).
C12_WeeklyStartIsMondayOnOrBefore ==
    (Called("calculate_one_period_start") /\ result.arg[1] = "weekly")
    => LET d == result.arg[2]
           start == result.out.val
       IN  /\ result.out.exc = "none"
           /\ IsMonday(start)
           /\ start <= d
           /\ d - start \in 0 .. 6
           /\ IsMonday(d) => start = d

\* C12 witness: Sunday 2023-12-31 is bucketed to Monday 2023-12-25
C12_Witness ==
    /\ Called("calculate_one_period_start")
    /\ result.arg = <<"weekly", date_toordinal(2023, 12, 31)>>
    /\ result.out = Return(date_toordinal(2023, 12, 25))

\* C13: for monthly periodicity the period start of any date d is day 1 of d's
\* month and year, for yearly periodicity it is 1 January of d's year; month
\* ends, 29 February and 31 December included.
C13_MonthlyAndYearlyStart ==
    /\ (Called("calculate_one_period_start") /\ result.arg[1] = "monthly")
       => result.out = Return(date_toordinal(date_year(result.arg[2]),
                                             date_month(result.arg[2]), 1))
    /\ (Called("calculate_one_period_start") /\ result.arg[1] = "yearly")
       => result.out = Return(date_toordinal(date_year(result.arg[2]), 1, 1))
    /\ monthly_start(date_toordinal(2024, 2, 29)) = date_toordinal(2024, 2, 1)
    /\ monthly_start(date_toordinal(2023, 12, 31)) = date_toordinal(2023, 12, 1)
    /\ yearly_start(date_toordinal(2024, 2, 29)) = date_toordinal(2024, 1, 1)
    /\ yearly_start(date_toordinal(2024, 12, 31)) = date_toordinal(2024, 1, 1)

\* C13 witness: 29 February 2024 is bucketed to 1 February 2024
C13_Witness ==
    /\ Called("calculate_one_period_start")
    /\ result.arg = <<"monthly", date_toordinal(2024, 2, 29)>>
    /\ result.out = Return(date_toordinal(2024, 2, 1))

\* C14: period bucketing is idempotent for all four periodicities: the period
\* start of a period start is that period start.
C14_BucketingIsIdempotent ==
    Called("calculate_one_period_start")
    => /\ result.arg[1] \in Periodicities
       /\ calculate_one_period_start(result.arg[1], result.out.val) = result.out.val

\* C14 witness: a date inside a year, not itself a period start, was bucketed
C14_Witness ==
    /\ Called("calculate_one_period_start")
    /\ result.arg[1] = "yearly"
    /\ result.out.val < result.arg[2]

----------------------------------------------------------------------------
(* A habit whose periodicity is none of the four: Habit.periodicity is set  *)
(* unchecked and db.add_habit stores it as it is                            *)

\* the habit stored with the periodicity "half yearly"
InvalidHabit == [name |-> "Go to dentist", periodicity |-> "half yearly"]

\* a user whose only habit has an unknown periodicity, and no completion yet
InitInvalid ==
    /\ today = Today0
    /\ defined_habits = <<InvalidHabit>>
    /\ completions = [n \in HabitNames |-> <<>>]
    /\ last_completion = [n \in HabitNames |-> None]
    /\ result = NoResult

\* calculate_period_starts(periodicity, check_dates) on the rows of a habit:
\* check_dates[0] is read before period_start_funcs[periodicity]
CalculatePeriodStarts(periodicity, check_dates) ==
    /\ result.op = "none"
    /\ result' = [op |-> "calculate_period_starts", arg |-> <<periodicity, check_dates>>,
                  out |-> IF check_dates = <<>> THEN Raise("IndexError")
                          ELSE IF periodicity \in Periodicities
                          THEN Return(calculate_period_starts(periodicity, check_dates))
                          ELSE Raise("KeyError")]
    /\ UNCHANGED <<today, defined_habits, completions, last_completion>>

\* return_allowed_time(periodicity): timeliness[periodicity] raises KeyError
\* for an unknown periodicity
ReturnAllowedTime(periodicity) ==
    /\ result.op = "none"
    /\ result' = [op |-> "return_allowed_time", arg |-> <<periodicity>>,
                  out |-> IF periodicity \in Periodicities
                          THEN Return(return_allowed_time(periodicity))
                          ELSE Raise("KeyError")]
    /\ UNCHANGED <<today, defined_habits, completions, last_completion>>

\* check-offs of the habit and every bucketing and per-habit analysis call
NextInvalid ==
    \/ \E i \in 1 .. Len(defined_habits) :
           \/ \E check_date \in CheckDates("yearly") :
                  CheckOffHabit(defined_habits[i], check_date)
           \/ CheckOffHabitNow(defined_habits[i])
    \/ Tick
    \/ Dismiss
    \/ \E i \in 1 .. Len(defined_habits) :
           CalculatePeriodStarts(defined_habits[i].periodicity,
                                 return_completions(defined_habits[i]))
    \/ \E i \in 1 .. Len(defined_habits) :
           CalculateOnePeriodStart(defined_habits[i].periodicity, today)
    \/ \E i \in 1 .. Len(defined_habits) : ReturnAllowedTime(defined_habits[i].periodicity)
    \/ \E i \in 1 .. Len(defined_habits) : ReturnFinalPeriodStarts(defined_habits[i])
    \/ \E i \in 1 .. Len(defined_habits) : CalculateBreakIndices(defined_habits[i])
    \/ \E i \in 1 .. Len(defined_habits) : CalculateStreakLengths(defined_habits[i])
    \/ \E i \in 1 .. Len(defined_habits) : CalculateLongestStreak(defined_habits[i])
    \/ \E i \in 1 .. Len(defined_habits), period \in {"current", "previous"} :
           CompletedInPeriod(defined_habits[i], period)
    \/ \E i \in 1 .. Len(defined_habits) : CalculateCurrStreak(defined_habits[i])
    \/ \E i \in 1 .. Len(defined_habits) : CalculateBreakNo(defined_habits[i])
    \/ \E i \in 1 .. Len(defined_habits) : CalculateCompletionRate(defined_habits[i])

SpecInvalid == InitInvalid /\ [][NextInvalid]_vars

\* the calls made with a periodicity
BucketingOps == {"calculate_period_starts", "calculate_one_period_start", "return_allowed_time"}

\* the calls made with a habit
HabitOps ==
    {"return_final_period_starts", "calculate_break_indices", "calculate_streak_lengths",
     "calculate_longest_streak", "completed_in_period", "calculate_curr_streak",
     "calculate_break_no", "calculate_completion_rate"}

\* C15: a bucketing or analysis operation called with a periodicity other than
\* daily, weekly, monthly and yearly (on a non-empty completion list where it
\* takes one) raises the error of the failed periodicity lookup and returns
\* no result: no bucketing rule, allowed gap or denominator is made up.
C15_UnknownPeriodicityRaises ==
    /\ (/\ result.op \in BucketingOps
        /\ result.arg[1] \notin Periodicities
        /\ result.op = "calculate_period_starts" => result.arg[2] # <<>>)
       => result.out = Raise("KeyError")
    /\ (/\ result.op \in HabitOps
        /\ CalledHabit.periodicity \notin Periodicities
        /\ HasCompletions(CalledHabit))
       => result.out = Raise("KeyError")

\* C15 witness: the completion rate of the half-yearly habit, checked off
\* once, was asked for and the call raised
C15_Witness ==
    /\ Called("calculate_completion_rate")
    /\ CalledHabit.periodicity = "half yearly"
    /\ HasCompletions(CalledHabit)
    /\ result.out.exc = "KeyError"

\* the last entry of the final period starts a call returned
SyntheticPeriod == result.out.val[Len(result.out.val)]

\* C16 as stated: the final period-start sequence holds exactly one synthetic
\* period, strictly later than today and at least two allowed gaps (2, 14, 64,
\* 732 days) after today, for every value of today.
C16_SyntheticTwoGapsAfterToday ==
    (Called("return_final_period_starts") /\ HasCompletions(CalledHabit))
    => /\ result.out.exc = "none"
       /\ Len(result.out.val) = Cardinality(CompletedPeriods(CalledHabit)) + 1
       /\ SyntheticPeriod > today
       /\ SyntheticPeriod - today >= 2 * AllowedGap(CalledHabit.periodicity)

\* C16 amended: the final period-start sequence ends with exactly one synthetic
\* period, the start of the period that holds today + two allowed gaps; it is
\* more than one allowed gap after today and after the start of the current
\* period and at most two allowed gaps after today.
C16_SyntheticMoreThanOneGapAfterToday ==
    (Called("return_final_period_starts") /\ HasCompletions(CalledHabit))
    => LET gap == AllowedGap(CalledHabit.periodicity)
       IN  /\ result.out.exc = "none"
           /\ Len(result.out.val) = Cardinality(CompletedPeriods(CalledHabit)) + 1
           /\ SyntheticPeriod = PeriodOf(CalledHabit.periodicity, today + 2 * gap)
           /\ SyntheticPeriod - today > gap
           /\ SyntheticPeriod - CurrentPeriod(CalledHabit.periodicity) > gap
           /\ SyntheticPeriod - today <= 2 * gap

\* C16 witness: on a Sunday the synthetic period of a weekly habit is the
\* Monday 8 days later
C16_Witness ==
    /\ Called("return_final_period_starts")
    /\ HasCompletions(CalledHabit)
    /\ CalledHabit.periodicity = "weekly"
    /\ SyntheticPeriod - today = 8

\* the calendar period before the one that holds today: yesterday, the
\* Monday-week before this one, last month, last year
LastPeriod(periodicity) ==
    LET y == date_year(today)
        m == date_month(today)
    IN  CASE periodicity = "daily" -> today - 1
          [] periodicity = "weekly" -> CurrentPeriod("weekly") - 7
          [] periodicity = "monthly" ->
                 IF m = 1 THEN date_toordinal(y - 1, 12, 1) ELSE date_toordinal(y, m - 1, 1)
          [] periodicity = "yearly" -> date_toordinal(y - 1, 1, 1)

\* C17: completed_in_period with "current" is true exactly when a completion
\* falls in the calendar period that holds today, with "previous" exactly when
\* one falls in the calendar period before it; the synthetic future period
\* makes neither answer true.
C17_CompletedInPeriodIsCalendarPeriod ==
    (Called("completed_in_period") /\ HasCompletions(CalledHabit))
    => LET periodicity == CalledHabit.periodicity
           asked == IF result.period = "current" THEN CurrentPeriod(periodicity)
                    ELSE LastPeriod(periodicity)
       IN  /\ result.out.exc = "none"
           /\ result.out.val
                  = (\E d \in CompletionDates(CalledHabit) : PeriodOf(periodicity, d) = asked)
           /\ FuturePeriod(periodicity) \notin {CurrentPeriod(periodicity),
                                               LastPeriod(periodicity)}

\* C17 witness: a monthly habit completed last month and not this month is
\* asked for the previous period
C17_Witness ==
    /\ Called("completed_in_period")
    /\ CalledHabit.periodicity = "monthly"
    /\ result.period = "previous"
    /\ CurrentPeriod("monthly") \notin CompletedPeriods(CalledHabit)
    /\ result.out = Return(TRUE)

----------------------------------------------------------------------------
(* The clock during a call: every date.today() of an analysis function is   *)
(* a separate read of the system date, and midnight can fall between two    *)

\* calculate_curr_streak with the dates its calls of date.today() return:
\* reads[1] in add_future_period, reads[2] in completed_in_period "previous",
\* reads[3] in completed_in_period "current" or, when the previous period is
\* completed, in the add_future_period of calculate_streak_lengths
calculate_curr_streak_reads(habit, reads) ==
    IF return_completions(habit) = <<>> THEN Raise("IndexError")
    ELSE IF habit.periodicity \notin Periodicities THEN Raise("KeyError")
    ELSE Bind(final_period_starts(habit, reads[1]), LAMBDA final_periods :
        IF ~completed_in_period(final_periods, habit.periodicity, "previous", reads[2])
        THEN (IF ~completed_in_period(final_periods, habit.periodicity, "current", reads[3])
              THEN Return(0) ELSE Return(1))
        ELSE Bind(streak_lengths_of(final_period_starts(habit, reads[3]), habit.periodicity),
                  LAMBDA streak_lengths :
                      IF streak_lengths = <<>> THEN Raise("IndexError")
                      ELSE Return(streak_lengths[Len(streak_lengths)])))

\* calculate_break_no: reads[1] in add_future_period, reads[2] in
\* completed_in_period "current", reads[3] in completed_in_period "previous"
calculate_break_no_reads(habit, reads) ==
    IF return_completions(habit) = <<>> THEN Raise("IndexError")
    ELSE IF habit.periodicity \notin Periodicities THEN Raise("KeyError")
    ELSE Bind(final_period_starts(habit, reads[1]), LAMBDA final_periods :
        LET break_indices == calculate_break_indices(final_periods, habit.periodicity)
            curr_period == completed_in_period(final_periods, habit.periodicity,
                                               "current", reads[2])
            prev_period == completed_in_period(final_periods, habit.periodicity,
                                               "previous", reads[3])
        IN  IF curr_period \/ prev_period
            THEN Return(Len(break_indices) - 1)
            ELSE Return(Len(break_indices)))

\* calculate_completion_rate: reads[1] in add_future_period, reads[2] for
\* cur_period
calculate_completion_rate_reads(habit, reads) ==
    IF return_completions(habit) = <<>> THEN Raise("IndexError")
    ELSE IF habit.periodicity \notin Periodicities THEN Raise("KeyError")
    ELSE Bind(final_period_starts(habit, reads[1]), LAMBDA final_periods :
        Bind(calculate_one_period_start(habit.periodicity, reads[2]), LAMBDA cur_period :
            LET no_possible_periods == IF habit.periodicity = "daily" THEN 28 ELSE 4
                period_4_weeks_ago ==
                    calculate_one_period_start(habit.periodicity, cur_period - 4 * 7)
                completed_periods_4_weeks ==
                    SelectSeq(final_periods,
                              LAMBDA x : period_4_weeks_ago <= x /\ x < cur_period)
            IN  Return(<<Len(completed_periods_4_weeks), no_possible_periods>>)))

ClockOps == {"calculate_curr_streak", "calculate_break_no", "calculate_completion_rate"}

\* what the call returns when its reads of the clock returned these dates
ReturnOfReads(op, habit, reads) ==
    CASE op = "calculate_curr_streak" -> calculate_curr_streak_reads(habit, reads)
      [] op = "calculate_break_no" -> calculate_break_no_reads(habit, reads)
      [] op = "calculate_completion_rate" -> calculate_completion_rate_reads(habit, reads)

\* the number of date.today() calls of one call; none on an empty history,
\* where check_dates[0] raises first
ClockReads(op, habit) ==
    IF return_completions(habit) = <<>> THEN 0
    ELSE IF op = "calculate_completion_rate" THEN 2 ELSE 3

\* the habit of the call in progress or returned
ClockHabit == CHOOSE habit \in Range(defined_habits) : habit.name = result.arg

\* one of the three functions is called
BeginCall(op, habit) ==
    /\ result.op = "none"
    /\ result' = [op |-> "running", arg |-> habit.name, call |-> op, reads |-> <<>>,
                  out |-> ReturnNone]
    /\ UNCHANGED <<today, defined_habits, completions, last_completion>>

\* the call in progress evaluates its next date.today()
ReadClock ==
    /\ result.op = "running"
    /\ Len(result.reads) < ClockReads(result.call, ClockHabit)
    /\ result' = [result EXCEPT !.reads = Append(@, today)]
    /\ UNCHANGED <<today, defined_habits, completions, last_completion>>

\* midnight while the call is in progress
Midnight ==
    /\ result.op = "running"
    /\ today < Today0 + MaxDays
    /\ today' = today + 1
    /\ UNCHANGED <<defined_habits, completions, last_completion, result>>

\* the call returns
EndCall ==
    /\ result.op = "running"
    /\ Len(result.reads) = ClockReads(result.call, ClockHabit)
    /\ result' = [result EXCEPT !.op = result.call,
                                !.out = ReturnOfReads(result.call, ClockHabit, result.reads)]
    /\ UNCHANGED <<today, defined_habits, completions, last_completion>>

\* the caller has taken the value of a returned call
TakeReturn ==
    /\ result.op # "running"
    /\ Dismiss

NextClock ==
    \/ CheckOff
    \/ Tick
    \/ \E i \in 1 .. Len(defined_habits), op \in ClockOps : BeginCall(op, defined_habits[i])
    \/ ReadClock
    \/ Midnight
    \/ EndCall
    \/ TakeReturn

SpecClock == Init /\ [][NextClock]_vars

\* C18: calculate_curr_streak, calculate_break_no and calculate_completion_rate
\* are functions of the completion list, the periodicity and one current date:
\* also when the system date advances between the reads of one call, the value
\* returned is the value returned with the date fixed at one of the dates read.
C18_OneCurrentDatePerCall ==
    (result.op \in ClockOps /\ HasCompletions(ClockHabit))
    => \E d \in Range(result.reads) :
           result.out = ReturnOfReads(result.op, ClockHabit, <<d, d, d>>)

----------------------------------------------------------------------------
\* the final period starts of a completion list, as return_final_period_starts
\* builds them from the rows of a habit
FinalPeriodsOf(periodicity, check_dates, now) ==
    add_future_period(tidy_starts(calculate_period_starts(periodicity, check_dates)),
                      periodicity, now)

\* every reordering of the list s
Reorderings(s) ==
    {[i \in 1 .. Len(s) |-> s[f[i]]] :
        f \in {g \in [1 .. Len(s) -> 1 .. Len(s)] :
                  \A i, j \in 1 .. Len(s) : i # j => g[i] # g[j]}}

\* the check dates that fall in a period the habit is already completed in
DatesInCompletedPeriods(habit) ==
    {c \in CheckDates(habit.periodicity) \cup Range(completions[habit.name]) :
        PeriodOf(habit.periodicity, date_fromisoformat(c)) \in CompletedPeriods(habit)}

\* C19: the final period-start sequence, and the streak lengths derived from
\* it, are the same for every reordering of the completion list and do not
\* change with a further completion in a period that already has one.
C19_OrderAndRepetitionDoNotMatter ==
    /\ (Called("return_final_period_starts") /\ HasCompletions(CalledHabit))
       => LET periodicity == CalledHabit.periodicity
              rows == completions[CalledHabit.name]
          IN  /\ \A check_dates \in Reorderings(rows) :
                     Return(FinalPeriodsOf(periodicity, check_dates, today)) = result.out
              /\ \A c \in DatesInCompletedPeriods(CalledHabit) :
                     Return(FinalPeriodsOf(periodicity, Append(rows, c), today)) = result.out
    /\ (Called("calculate_streak_lengths") /\ HasCompletions(CalledHabit))
       => LET periodicity == CalledHabit.periodicity
              rows == completions[CalledHabit.name]
          IN  /\ \A check_dates \in Reorderings(rows) :
                     Return(streak_lengths_of(FinalPeriodsOf(periodicity, check_dates, today),
                                              periodicity)) = result.out
              /\ \A c \in DatesInCompletedPeriods(CalledHabit) :
                     Return(streak_lengths_of(
                                FinalPeriodsOf(periodicity, Append(rows, c), today),
                                periodicity)) = result.out

\* C19 witness: three rows of a weekly habit, the latest first, two of them in
\* one week: two real periods and the synthetic one are returned
C19_Witness ==
    /\ Called("return_final_period_starts")
    /\ CalledHabit.periodicity = "weekly"
    /\ completions[CalledHabit.name] = << <<2023, 12, 24>>, <<2023, 12, 20>>, <<2023, 11, 29>> >>
    /\ Len(result.out.val) = 3

\* the real period starts of the habit a call was made for, sorted
RealPeriodStarts == SortedSeq(CompletedPeriods(CalledHabit))

\* C20: add_future_period does not change the list it is given: after the
\* call the caller's tidy list still holds only the real period starts, and
\* a second call on the same list, like the first, returns the real period
\* starts and exactly one synthetic entry.
C20_AddFuturePeriodKeepsItsArgument ==
    Called("add_future_period")
    => /\ result.caller = RealPeriodStarts
       /\ result.out = Return(Append(RealPeriodStarts,
                                     FuturePeriod(CalledHabit.periodicity)))

\* C21: for every habit with at least one completion the streak-length list
\* is non-empty, every streak length is at least 1, and there are as many
\* streaks as break indices.
C21_AtLeastOneStreak ==
    (Called("calculate_streak_lengths") /\ HasCompletions(CalledHabit))
    => /\ result.out.exc = "none"
       /\ result.out.val # <<>>
       /\ \A i \in 1 .. Len(result.out.val) : result.out.val[i] >= 1
       /\ Len(result.out.val)
              = Len(calculate_break_indices(
                        return_final_period_starts(CalledHabit).val,
                        CalledHabit.periodicity))

\* the habits of a list that have a row in the Completions table, each at the
\* place it has in the list
WithCompletions(habit_list) == SelectSeq(habit_list, HasCompletions)

\* C22: find_completed_habits returns exactly the habits of its input list
\* that have at least one stored completion, each once and in input order;
\* analyze_all_habits hands exactly these habits, and so no habit without a
\* completion, on to the analysis.
C22_OnlyCompletedHabitsAreAnalysed ==
    /\ Called("find_completed_habits")
       => result.out = Return(WithCompletions(result.arg))
    /\ Called("analyze_all_habits")
       => /\ result.out.exc = "none"
          /\ Len(result.out.val) = Len(WithCompletions(result.arg))
          /\ \A k \in 1 .. Len(result.out.val) :
                 /\ result.out.val[k][1] = WithCompletions(result.arg)[k].name
                 /\ completions[result.out.val[k][1]] # <<>>

\* C22 witness: of the five habits in reverse order, two have completions and
\* three have none; the two are returned in the order of the input
C22_Witness ==
    /\ Called("find_completed_habits")
    /\ result.arg = Reverse(HabitTable)
    /\ Len(result.out.val) = 2
    /\ result.out.val[1].name = "Clean bathroom"
    /\ result.out.val[2].name = "Brush teeth"
    /\ completions["Dance"] = <<>>

\* C23: after any sequence of check_off_habit calls, with or without a check
\* date, last_completion has only ever been replaced by a later date: it is
\* the latest check-off date of the habit so far.
C23_LastCompletionIsLatestCheckOff ==
    \A i \in 1 .. Len(defined_habits) :
        LET habit == defined_habits[i] IN
        HasCompletions(habit)
        => /\ last_completion[habit.name] # None
           /\ date_fromisoformat(last_completion[habit.name]) \in CompletionDates(habit)
           /\ \A d \in CompletionDates(habit) :
                  d <= date_fromisoformat(last_completion[habit.name])

-----------------------------------------------------------------------------
(* The break indices of two period starts, over the calendar *)

\* distances in days between two check dates: the second date falls into the
\* same, the next, the next but one or a later period than the first
GapDays(periodicity) ==
    CASE periodicity = "daily" -> {0, 1, 2, 3}
      [] periodicity = "weekly" -> {6, 7, 14, 21}
      [] periodicity = "monthly" -> {28, 31, 59, 62}
      [] periodicity = "yearly" -> {365, 366, 730, 731}

\* calculate_break_indices(final_periods, periodicity) on the tidy period
\* starts of the check dates
CalculateBreakIndicesOf(periodicity, check_dates) ==
    /\ result.op = "none"
    /\ result' =
           Bind(tidy_starts(calculate_period_starts(periodicity, check_dates)),
                LAMBDA final_periods :
                    [op |-> "calculate_break_indices",
                     arg |-> <<periodicity, final_periods>>,
                     out |-> Return(calculate_break_indices(final_periods, periodicity))])
    /\ UNCHANGED <<today, defined_habits, completions, last_completion>>

NextGaps ==
    \/ \E i \in 1 .. Len(defined_habits) :
           \E gap \in GapDays(defined_habits[i].periodicity) :
               CalculateBreakIndicesOf(defined_habits[i].periodicity,
                                       <<date_isoformat(today + gap), date_isoformat(today)>>)
    \/ Dismiss

SpecGaps == InitCalendar /\ [][NextGaps]_vars

\* at least one whole period lies between the period starts s and t: the day
\* before t belongs to a period that starts after s
PeriodMissed(periodicity, s, t) == s < PeriodOf(periodicity, t - 1)

\* C24: the allowed gaps of 32 and 366 days classify exactly: the starts of
\* two consecutive months are at most 32 days apart and those of two months
\* with a month skipped at least 58, the starts of two consecutive years are
\* at most 366 days apart and those with a year skipped more; so a gap is a
\* break index exactly when a whole period was missed, leap years included.
C24_AllowedGapsClassifyExactly ==
    (Called("calculate_break_indices") /\ Len(result.arg[2]) = 2)
    => LET periodicity == result.arg[1]
           s == result.arg[2][1]
           t == result.arg[2][2]
       IN  /\ s < t
           /\ result.out = Return(IF PeriodMissed(periodicity, s, t) THEN <<0>> ELSE <<>>)
           /\ periodicity = "monthly"
              => IF PeriodMissed(periodicity, s, t) THEN t - s >= 58 ELSE t - s <= 32
           /\ periodicity = "yearly"
              => IF PeriodMissed(periodicity, s, t) THEN t - s > 366 ELSE t - s <= 366

\* C24 witness: the leap year 2024, whose 366 days to 2025-01-01 are no break
C24_Witness ==
    /\ Called("calculate_break_indices")
    /\ result.arg = <<"yearly", <<date_toordinal(2024, 1, 1), date_toordinal(2025, 1, 1)>> >>
    /\ result.out = Return(<<>>)

-----------------------------------------------------------------------------
(* The current streak, counted on the calendar *)

\* the number of consecutive calendar periods with a completion, counted
\* backwards from the period that starts at p
RECURSIVE PeriodsBackFrom(_, _, _)
PeriodsBackFrom(periodicity, p, periods) ==
    IF p \notin periods THEN 0
    ELSE 1 + PeriodsBackFrom(periodicity, PeriodOf(periodicity, p - 1), periods)

\* C25: for a habit with a non-empty history and no completion after today,
\* calculate_curr_streak is the number of consecutive calendar periods with a
\* completion counted backwards from the current period if it has a
\* completion and from the period before it otherwise; it is 0 exactly when
\* neither of the two periods has a completion.
C25_CurrStreakCountsBackwards ==
    (Called("calculate_curr_streak")
        /\ HasCompletions(CalledHabit) /\ NoCompletionAfterToday(CalledHabit))
    => LET habit == CalledHabit
           periods == CompletedPeriods(habit)
           current == CurrentPeriod(habit.periodicity)
           before == LastPeriod(habit.periodicity)
       IN  /\ result.out =
                  Return(PeriodsBackFrom(habit.periodicity,
                                         IF current \in periods THEN current ELSE before,
                                         periods))
           /\ result.out = Return(0) <=> (current \notin periods /\ before \notin periods)

\* C25 witness: nothing completed in the current period, the two periods
\* before it completed: a current streak of 2
C25_Witness ==
    /\ Called("calculate_curr_streak")
    /\ HasCompletions(CalledHabit) /\ NoCompletionAfterToday(CalledHabit)
    /\ CurrentPeriod(CalledHabit.periodicity) \notin CompletedPeriods(CalledHabit)
    /\ Cardinality(CompletedPeriods(CalledHabit)) = 3
    /\ result.out = Return(2)

\* C26: for every habit with a non-empty history and no completion after
\* today the current streak never exceeds the longest streak, and the longest
\* streak is the maximum of the streak lengths.
C26_CurrStreakAtMostLongest ==
    /\ (Called("calculate_curr_streak")
           /\ HasCompletions(CalledHabit) /\ NoCompletionAfterToday(CalledHabit))
       => /\ result.out.exc = "none"
          /\ calculate_longest_streak(CalledHabit).exc = "none"
          /\ result.out.val <= calculate_longest_streak(CalledHabit).val
    /\ (Called("calculate_longest_streak")
           /\ HasCompletions(CalledHabit) /\ NoCompletionAfterToday(CalledHabit))
       => LET streak_lengths == calculate_streak_lengths(CalledHabit).val
          IN  /\ result.out.exc = "none"
              /\ result.out.val \in Range(streak_lengths)
              /\ \A x \in Range(streak_lengths) : x <= result.out.val
              /\ calculate_curr_streak(CalledHabit).val <= result.out.val

\* C26 witness: a current streak of 1 after an earlier, longer streak of 2
C26_Witness ==
    /\ Called("calculate_curr_streak")
    /\ HasCompletions(CalledHabit) /\ NoCompletionAfterToday(CalledHabit)
    /\ result.out = Return(1)
    /\ calculate_streak_lengths(CalledHabit) = Return(<<2, 1>>)
    /\ calculate_longest_streak(CalledHabit) = Return(2)

====
